---- MODULE Spec2Model ----
(***************************************************************************)
(* uriuniq: random URI-safe strings.  Generate resolves the charset from   *)
(* the Options (getCharset) and samples it with rejection sampling over    *)
(* buffers of bytes read from crypto/rand (randString).                    *)
(*                                                                         *)
(* Characters are modelled by their byte codes (ASCII), strings and byte   *)
(* slices by sequences of byte codes.  One step of the model is one call   *)
(* entry (Generate or randString up to its first rand.Read) or one         *)
(* iteration of randString's outer loop (one rand.Read and the scan of the *)
(* buffer it filled).                                                      *)
(***************************************************************************)
EXTENDS Integers, Sequences, FiniteSets, TLC

VARIABLES
    pc,          \* "idle" (no call yet), "loop" (in randString's outer loop), "done" (returned)
    entry,       \* which function the caller entered: "none", "Generate", "randString"
    opts,        \* the Options value the caller passed to Generate
    printed,     \* the notices written with fmt.Printf during the call
    length,      \* randString parameter
    maxBadReads, \* randString parameter
    charset,     \* randString parameter
    maxByte,     \* randString local
    output,      \* randString local
    badReads,    \* randString local
    reads,       \* number of rand.Read calls made by this call
    readErr,     \* whether a rand.Read of this call returned an error
    result,      \* returned string
    err          \* returned error

vars == <<pc, entry, opts, printed, length, maxBadReads, charset, maxByte,
          output, badReads, reads, readErr, result, err>>

(***************************************************************************)
(* Program constants                                                       *)
(***************************************************************************)
DefaultLength == 16
DefaultMaxBadReads == 150
MaxBuffLength == 2048
MinCharsetLen == 2
MaxCharsetLen == 256
ByteSize == 256

Range(lo, hi) == [k \in 1..(hi - lo + 1) |-> lo + k - 1]

Numeric == Range(48, 57)
Lowercase == Range(97, 122)
Uppercase == Range(65, 90)
Alphanumeric == Lowercase \o Uppercase \o Numeric

\* the punctuation of safeChars:  - _ . ~ ! * ' ( )
safeChars == Uppercase \o Lowercase \o Numeric \o <<45, 95, 46, 126, 33, 42, 39, 40, 41>>

ErrNil == "nil"
ErrNoValidChars == "uriuniq: no valid chars"
ErrCharsetSize == "uriuniq: charset size 2-256"
ErrBadReads == "uriuniq: too many bad reads"
ErrRand == "crypto/rand: read failed"

NoticeLength == "Invalid length provided, using default length"
NoticeURISafe == "Warning: CustomCharset contains characters that are not URI-safe"

Elems(s) == {s[k] : k \in 1..Len(s)}

NewOpts ==
    [Length |-> DefaultLength, ExcludeNumeric |-> FALSE, ExcludeLowercase |-> FALSE,
     ExcludeUppercase |-> FALSE, CustomCharset |-> <<>>, MaxBadReads |-> DefaultMaxBadReads]

(***************************************************************************)
(* Bounds of the model and the inputs drawn by the actions                 *)
(***************************************************************************)
MaxLength == 2
MaxBudget == 2

\* "ab", "a", "abc123", "aab" and the two charsets of the URI-safety tests
CharsetAB == <<97, 98>>
CharsetA == <<97>>
CharsetABC123 == <<97, 98, 99, 49, 50, 51>>
CharsetDup == <<97, 97, 98>>
CharsetSafe == <<97, 98, 99, 65, 66, 67, 49, 50, 51, 45, 95, 33, 126, 42, 39, 40, 41>>
CharsetUnsafe == <<97, 98, 99, 65, 66, 67, 49, 50, 51, 60, 62, 35>>

CustomCharsets == {CharsetAB, CharsetA, CharsetABC123, CharsetDup, CharsetSafe, CharsetUnsafe}

\* a charset of n bytes, as the charset-length test builds with make([]byte, n),
\* filled with distinct byte values so that the index chosen is visible
ByteCharset(n) == [k \in 1..n |-> (k - 1) % ByteSize]

\* Options without a custom charset: every combination of the exclusion flags.
FlagOptions ==
    [Length : -1..MaxLength, ExcludeNumeric : BOOLEAN, ExcludeLowercase : BOOLEAN,
     ExcludeUppercase : BOOLEAN, CustomCharset : {<<>>}, MaxBadReads : 1..MaxBudget]

\* Options with a custom charset, the flags all clear or all set.
CustomOptions ==
    {[Length |-> l, ExcludeNumeric |-> f, ExcludeLowercase |-> f, ExcludeUppercase |-> f,
      CustomCharset |-> c, MaxBadReads |-> m] :
        l \in -1..MaxLength, f \in BOOLEAN, c \in CustomCharsets, m \in 1..MaxBudget}

\* NewOpts() with MaxBadReads cleared, so that Generate substitutes the default.
DefaultBudgetOptions ==
    {[NewOpts EXCEPT !.MaxBadReads = m, !.CustomCharset = c] :
        m \in {-1, 0}, c \in {<<>>, CharsetAB}}

\* A length that needs three buffers, with budgets up to the reads it needs.
LongLength == 2 * MaxBuffLength + 1
LongOptions ==
    {[NewOpts EXCEPT !.Length = LongLength, !.CustomCharset = CharsetAB, !.MaxBadReads = m] :
        m \in 1..((LongLength + MaxBuffLength - 1) \div MaxBuffLength)}

OptionsSet == FlagOptions \cup CustomOptions \cup DefaultBudgetOptions \cup LongOptions

\* Charset sizes of direct calls of randString: the sizes around both limits.
DirectSizes ==
    {MinCharsetLen - 2, MinCharsetLen - 1, MinCharsetLen, MinCharsetLen + 1,
     MaxCharsetLen, MaxCharsetLen + 1}

\* Bytes the random source delivers: index 0, a byte that wraps modulo the
\* charset size, and the largest byte (rejected unless the size divides 256).
ByteSamples == {0, 200, 255}

\* Buffers of MaxBuffLength bytes filled by rand.Read: two bytes alternating.
Buffers ==
    {[k \in 1..MaxBuffLength |-> IF k % 2 = 1 THEN a ELSE b] : a, b \in ByteSamples}

(***************************************************************************)
(* isURISafe, getCharset                                                   *)
(***************************************************************************)
isURISafe(s) == \A k \in 1..Len(s) : s[k] \in Elems(safeChars)

\* Faulty variant of getCharset: the fallback to Alphanumeric is missing.
getCharsetNoFallback(o) ==
    IF o.CustomCharset # <<>>
    THEN o.CustomCharset
    ELSE LET c1 == IF ~o.ExcludeNumeric THEN Numeric ELSE <<>>
             c2 == IF ~o.ExcludeLowercase THEN c1 \o Lowercase ELSE c1
         IN  IF ~o.ExcludeUppercase THEN c2 \o Uppercase ELSE c2

\* Faulty variant of getCharset: the exclusion flags are applied to a custom
\* charset too (the flag branch is not an else branch).
getCharsetFlagsAlways(o) ==
    LET c1 == IF ~o.ExcludeNumeric THEN o.CustomCharset \o Numeric ELSE o.CustomCharset
        c2 == IF ~o.ExcludeLowercase THEN c1 \o Lowercase ELSE c1
        c3 == IF ~o.ExcludeUppercase THEN c2 \o Uppercase ELSE c2
    IN  IF o.ExcludeNumeric /\ o.ExcludeLowercase /\ o.ExcludeUppercase
             /\ o.CustomCharset = <<>>
        THEN c3 \o Alphanumeric
        ELSE c3

getCharset(o) ==
    IF o.CustomCharset # <<>>
    THEN o.CustomCharset
    ELSE LET c1 == IF ~o.ExcludeNumeric THEN Numeric ELSE <<>>
             c2 == IF ~o.ExcludeLowercase THEN c1 \o Lowercase ELSE c1
             c3 == IF ~o.ExcludeUppercase THEN c2 \o Uppercase ELSE c2
         IN  IF o.ExcludeNumeric /\ o.ExcludeLowercase /\ o.ExcludeUppercase
             THEN c3 \o Alphanumeric
             ELSE c3

getCharsetPrints(o) ==
    IF o.CustomCharset # <<>> /\ ~isURISafe(o.CustomCharset) THEN {NoticeURISafe} ELSE {}

(***************************************************************************)
(* randString                                                              *)
(***************************************************************************)
\* Faulty variant of the size check: a charset of one character passes.
charsetLenOutOfBoundsFromOne(charsetLen) ==
    charsetLen < MinCharsetLen - 1 \/ charsetLen > MaxCharsetLen

charsetLenOutOfBounds(charsetLen) == charsetLen < MinCharsetLen \/ charsetLen > MaxCharsetLen

\* Faulty variant of maxByteOf: the remainder of 255, not of 256, is removed.
maxByteOfRemainder255(charsetLen) ==
    ((ByteSize - 1) - ((ByteSize - 1) % charsetLen)) % ByteSize

\* maxByte := byte(255 - (256 % charsetLen))
maxByteOf(charsetLen) == ((ByteSize - 1) - (ByteSize % charsetLen)) % ByteSize

\* Faulty variant of acceptByte: the byte is reduced modulo the charset size but
\* appended as it is, not looked up in the charset.
acceptByteNoLookup(out, byteVal, cs, mb) ==
    IF byteVal <= mb THEN Append(out, byteVal % Len(cs)) ELSE out

\* if byteVal <= maxByte { output = append(output, charset[int(byteVal)%charsetLen]) }
acceptByte(out, byteVal, cs, mb) ==
    IF byteVal <= mb THEN Append(out, cs[(byteVal % Len(cs)) + 1]) ELSE out

\* Faulty variant of the scan condition: the scan stops one character late.
scanCondOneLate(i, readBytes, out, len) == i < readBytes /\ Len(out) <= len

\* i < readBytes && len(output) < length
scanCond(i, readBytes, out, len) == i < readBytes /\ Len(out) < len

\* for i := 0; i < readBytes && len(output) < length; i++ { ... }
\* The iterations i..readBytes-1 in order.  The range is split in two halves run
\* one after the other (the loop over i..mid-1, then the loop over mid..readBytes-1),
\* which keeps the nesting of the evaluation logarithmic in MaxBuffLength; the
\* loop condition is tested before every iteration, as in the code.
RECURSIVE scanBuffer(_, _, _, _, _, _, _)
scanBuffer(i, readBytes, buffer, out, len, cs, mb) ==
    IF ~scanCond(i, readBytes, out, len)
    THEN out
    ELSE IF readBytes - i = 1
    THEN acceptByte(out, buffer[i + 1], cs, mb)
    ELSE LET mid == (i + readBytes) \div 2
         IN  scanBuffer(mid, readBytes, buffer,
                        scanBuffer(i, mid, buffer, out, len, cs, mb), len, cs, mb)

\* Faulty variants of the budget test: one read early, one read late.
budgetExceededEarly(br, mbr) == br >= mbr

budgetExceededLate(br, mbr) == br > mbr + 1

\* if badReads > maxBadReads
budgetExceeded(br, mbr) == br > mbr

\* for len(output) < length
loopCond(out, len) == Len(out) < len

Return(s, e) == pc' = "done" /\ result' = s /\ err' = e

\* randString from its entry up to the first rand.Read (or its return).
randStringEnter(len, mbr, cs) ==
    /\ length' = len
    /\ maxBadReads' = mbr
    /\ charset' = cs
    /\ reads' = 0
    /\ readErr' = FALSE
    /\ badReads' = 0
    /\ output' = <<>>
    /\ IF len = 0
       THEN maxByte' = 0 /\ Return(<<>>, ErrNil)
       ELSE IF charsetLenOutOfBounds(Len(cs))
       THEN maxByte' = 0 /\ Return(<<>>, ErrCharsetSize)
       ELSE /\ maxByte' = maxByteOf(Len(cs))
            /\ IF loopCond(<<>>, len)
               THEN pc' = "loop" /\ result' = <<>> /\ err' = ErrNil
               ELSE Return(<<>>, ErrNil)

\* A caller calls randString directly (as the charset-length test does).
randString(len, mbr, cs) ==
    /\ pc = "idle"
    /\ entry' = "randString"
    /\ UNCHANGED <<opts, printed>>
    /\ randStringEnter(len, mbr, cs)

\* A caller calls Generate(o).
Generate(o) ==
    /\ pc = "idle"
    /\ entry' = "Generate"
    /\ opts' = o
    /\ LET len == IF o.Length <= 0 THEN DefaultLength ELSE o.Length
           mbr == IF o.MaxBadReads <= 0 THEN DefaultMaxBadReads ELSE o.MaxBadReads
           cs  == getCharset(o)
       IN  /\ printed' = (IF o.Length <= 0 THEN {NoticeLength} ELSE {}) \cup getCharsetPrints(o)
           /\ IF Len(cs) = 0
              THEN /\ Return(<<>>, ErrNoValidChars)
                   /\ UNCHANGED <<length, maxBadReads, charset, maxByte, output, badReads,
                                reads, readErr>>
              ELSE randStringEnter(len, mbr, cs)

\* One iteration of the outer loop whose rand.Read succeeds and fills the buffer.
ReadOk(buffer) ==
    /\ pc = "loop"
    /\ reads' = reads + 1
    /\ LET out == scanBuffer(0, MaxBuffLength, buffer, output, length, charset, maxByte)
       IN  /\ output' = out
           /\ badReads' = badReads + 1
           /\ IF budgetExceeded(badReads + 1, maxBadReads)
              THEN Return(<<>>, ErrBadReads)
              ELSE IF loopCond(out, length)
              THEN UNCHANGED <<pc, result, err>>
              ELSE Return(out, ErrNil)
    /\ UNCHANGED <<entry, opts, printed, length, maxBadReads, charset, maxByte, readErr>>

\* Faulty variant of ReadFail: the failed read is counted as a bad read and the
\* loop goes on.
ReadFailRetried ==
    /\ pc = "loop"
    /\ reads' = reads + 1
    /\ readErr' = TRUE
    /\ badReads' = badReads + 1
    /\ IF badReads + 1 > maxBadReads
       THEN Return(<<>>, ErrBadReads)
       ELSE UNCHANGED <<pc, result, err>>
    /\ UNCHANGED <<entry, opts, printed, length, maxBadReads, charset, maxByte, output>>

\* One iteration of the outer loop whose rand.Read returns an error.
ReadFail ==
    /\ pc = "loop"
    /\ reads' = reads + 1
    /\ readErr' = TRUE
    /\ Return(<<>>, ErrRand)
    /\ UNCHANGED <<entry, opts, printed, length, maxBadReads, charset, maxByte, output, badReads>>

Init ==
    /\ pc = "idle"
    /\ entry = "none"
    /\ opts = NewOpts
    /\ printed = {}
    /\ length = 0
    /\ maxBadReads = 0
    /\ charset = <<>>
    /\ maxByte = 0
    /\ output = <<>>
    /\ badReads = 0
    /\ reads = 0
    /\ readErr = FALSE
    /\ result = <<>>
    /\ err = ErrNil

Next ==
    \/ \E o \in OptionsSet : Generate(o)
    \/ \E len \in 0..MaxLength, mbr \in 1..MaxBudget, n \in DirectSizes :
           randString(len, mbr, ByteCharset(n))
    \/ \E buffer \in Buffers : ReadOk(buffer)
    \/ ReadFail

Spec == Init /\ [][Next]_vars

\* The entry of randString alone, for every charset size up to one past the limit.
NextSizes == \E n \in 0..(MaxCharsetLen + 1) : randString(1, 1, ByteCharset(n))

SpecSizes == Init /\ [][NextSizes]_vars

Bytes == 0..(ByteSize - 1)

TypeOK ==
    /\ pc \in {"idle", "loop", "done"}
    /\ entry \in {"none", "Generate", "randString"}
    /\ opts \in OptionsSet \cup {NewOpts}
    /\ printed \subseteq {NoticeLength, NoticeURISafe}
    /\ length \in Nat
    /\ maxBadReads \in Nat
    /\ Elems(charset) \subseteq Bytes
    /\ maxByte \in Bytes
    /\ Elems(output) \subseteq Bytes
    /\ badReads \in Nat
    /\ reads \in Nat
    /\ readErr \in BOOLEAN
    /\ Elems(result) \subseteq Bytes
    /\ err \in {ErrNil, ErrNoValidChars, ErrCharsetSize, ErrBadReads, ErrRand}

(***************************************************************************)
(* Properties                                                              *)
(***************************************************************************)
returnedOk == pc = "done" /\ err = ErrNil

fromGenerate == entry = "Generate"

\* the length Generate is to produce for Options o
effectiveLength(o) == IF o.Length > 0 THEN o.Length ELSE DefaultLength

\* the budget Generate is to pass for Options o
effectiveBudget(o) == IF o.MaxBadReads > 0 THEN o.MaxBadReads ELSE DefaultMaxBadReads

sizeInBounds(n) == n \in MinCharsetLen..MaxCharsetLen

\* C1: a string returned without error by Generate has exactly the effective
\* length: Options.Length when it is positive, the default 16 otherwise.
C1_ExactLength ==
    (fromGenerate /\ returnedOk /\ sizeInBounds(Len(charset)))
        => Len(result) = effectiveLength(opts)

\* Generate with Length <= 0 returned 16 characters after a buffer that was
\* rejected whole and a second one.
C1_Witness ==
    /\ fromGenerate /\ returnedOk
    /\ opts.Length <= 0
    /\ reads >= 2
    /\ Len(result) = DefaultLength

\* C2: in every state of the sampling loop and in every returned string, each
\* character is an element of the resolved charset, and every accepted byte
\* has its index b mod size inside the charset.
C2_CharsInCharset ==
    (pc # "idle" /\ sizeInBounds(Len(charset))) =>
        /\ Elems(output) \subseteq Elems(charset)
        /\ Elems(result) \subseteq Elems(charset)
        /\ \A b \in 0..maxByte : (b % Len(charset)) + 1 \in DOMAIN charset
        /\ fromGenerate /\ opts.CustomCharset # <<>>
               => Elems(result) \subseteq Elems(opts.CustomCharset)

\* Generate with the custom charset "abc123" returned a string holding 'c',
\* which byte 200 selects (200 mod 6 = 2).
C2_Witness ==
    /\ fromGenerate /\ returnedOk
    /\ opts.CustomCharset = CharsetABC123
    /\ Len(result) = MaxLength
    /\ 99 \in Elems(result)

\* C3: for every charset size n in 2..256, maxByte = 255 - (256 mod n) fits in a
\* byte and every index 0..n-1 is the image under b -> b mod n of exactly
\* floor(256/n) accepted bytes b in 0..maxByte.
C3_UniformIndex ==
    (pc = "loop") =>
        LET n == Len(charset)
        IN  /\ sizeInBounds(n)
            /\ maxByte \in Bytes
            /\ maxByte = 255 - (256 % n)
            /\ \A i \in 0..(n - 1) :
                   Cardinality({b \in 0..maxByte : b % n = i}) = 256 \div n

\* randString entered its loop with a charset of 129 characters, the size with
\* the most rejected bytes.
C3_Witness == pc = "loop" /\ Len(charset) = 129 /\ maxByte = 128

\* C4: "too many bad reads" is returned only in a state where the output has
\* fewer than length characters (budgets of at least 1).
C4_ErrorOnlyWhenShort ==
    (pc = "done" /\ err = ErrBadReads /\ maxBadReads >= 1) => Len(output) < length

\* C5 as claimed: for every length >= 0, a charset whose size is outside
\* [2,256] gives the charset-size error, with no read of the random source.
C5_OutOfBoundsAlwaysError ==
    (pc # "idle" /\ length >= 0 /\ ~sizeInBounds(Len(charset)))
        => (pc = "done" /\ err = ErrCharsetSize /\ reads = 0)

\* C5 as amended: for every length other than 0, a charset whose size is
\* outside [2,256] gives the charset-size error with the empty string and no
\* read of the random source; for length 0 the result is the empty string
\* without error, also with no read.  A custom charset of one character passed
\* to Generate gives the error.
C5_OutOfBoundsErrorUnlessZeroLength ==
    /\ (pc # "idle" /\ ~sizeInBounds(Len(charset))) =>
           /\ pc = "done" /\ reads = 0 /\ result = <<>>
           /\ err = (IF length = 0 THEN ErrNil ELSE ErrCharsetSize)
    /\ (fromGenerate /\ Len(opts.CustomCharset) = 1) => err = ErrCharsetSize

\* A direct call with a positive length and a charset of 257 characters
\* returned the charset-size error.
C5_Witness ==
    /\ entry = "randString" /\ pc = "done"
    /\ length > 0
    /\ Len(charset) = MaxCharsetLen + 1
    /\ err = ErrCharsetSize

\* C6 as claimed: with a charset whose size divides 256 every byte is accepted
\* and Generate never fails with "too many bad reads", whatever the length
\* and the budget.
C6_ZeroRejectionNeverFails ==
    (fromGenerate /\ sizeInBounds(Len(charset)) /\ 256 % Len(charset) = 0)
        => (maxByte = 255 /\ err # ErrBadReads)

\* C6 as amended: with a charset whose size divides 256 every byte is accepted,
\* and Generate never fails with "too many bad reads" when the effective
\* length is at most MaxBuffLength times the effective budget.
C6_ZeroRejectionWithinBudget ==
    (fromGenerate /\ sizeInBounds(Len(charset)) /\ 256 % Len(charset) = 0) =>
        /\ maxByte = 255
        /\ effectiveLength(opts) <= MaxBuffLength * effectiveBudget(opts)
               => err # ErrBadReads

\* Generate with the charset "ab", a length over two buffers and a budget of
\* three reads returned the whole string on its third read.
C6_Witness ==
    /\ fromGenerate /\ returnedOk
    /\ opts.CustomCharset = CharsetAB
    /\ effectiveLength(opts) > 2 * MaxBuffLength
    /\ reads = effectiveBudget(opts)
    /\ Len(result) = effectiveLength(opts)

\* C7: with no custom charset and all three exclusion flags set the resolved
\* charset is the alphanumeric set, 62 characters; the resolved charset is
\* never empty and Generate never returns "no valid chars".
C7_FallbackAlphanumeric ==
    fromGenerate =>
        /\ charset # <<>>
        /\ err # ErrNoValidChars
        /\ (/\ opts.CustomCharset = <<>>
            /\ opts.ExcludeNumeric /\ opts.ExcludeLowercase /\ opts.ExcludeUppercase)
               => /\ Len(charset) = 62
                  /\ Elems(charset) = (48..57) \cup (97..122) \cup (65..90)

\* Generate with all three flags set and no custom charset returned a string.
C7_Witness ==
    /\ fromGenerate /\ returnedOk
    /\ opts.CustomCharset = <<>>
    /\ opts.ExcludeNumeric /\ opts.ExcludeLowercase /\ opts.ExcludeUppercase
    /\ Len(result) = MaxLength

\* the subset of a class that the resolver is to contribute
included(excluded, class) == IF excluded THEN <<>> ELSE class

\* C8: a custom charset is resolved verbatim, the flags ignored, characters
\* that are not URI-safe give the warning and no error of the resolution;
\* otherwise, with a flag clear, the charset is the concatenation in the order
\* numeric, lowercase, uppercase of the classes whose flag is clear.
C8_ResolverReference ==
    fromGenerate =>
        /\ opts.CustomCharset # <<>> =>
               /\ charset = opts.CustomCharset
               /\ (NoticeURISafe \in printed)
                      <=> (Elems(opts.CustomCharset) \ Elems(safeChars) # {})
               /\ err # ErrNoValidChars
               /\ (sizeInBounds(Len(opts.CustomCharset)) /\ reads = 0)
                      => (pc = "loop" /\ err = ErrNil)
        /\ (/\ opts.CustomCharset = <<>>
            /\ ~(opts.ExcludeNumeric /\ opts.ExcludeLowercase /\ opts.ExcludeUppercase))
               => /\ charset = included(opts.ExcludeNumeric, Range(48, 57))
                                   \o included(opts.ExcludeLowercase, Range(97, 122))
                                   \o included(opts.ExcludeUppercase, Range(65, 90))
                  /\ NoticeURISafe \notin printed

\* Generate with a custom charset holding '<', '>' and '#', all flags set,
\* printed the warning and returned a string.
C8_Witness ==
    /\ fromGenerate /\ returnedOk
    /\ opts.CustomCharset = CharsetUnsafe
    /\ opts.ExcludeNumeric /\ opts.ExcludeLowercase /\ opts.ExcludeUppercase
    /\ NoticeURISafe \in printed
    /\ Len(result) = MaxLength

\* C9: once a read of the random source has failed, the call has returned that
\* failure with the empty string, the failed read was its last read (every
\* read before it succeeded and was counted), and the error is not "too many
\* bad reads".
C9_ReadFailurePropagates ==
    readErr =>
        /\ pc = "done"
        /\ err = ErrRand
        /\ result = <<>>
        /\ reads = badReads + 1

\* A read failed after an earlier read had accumulated characters and with
\* budget left.
C9_Witness ==
    /\ readErr
    /\ Len(output) > 0
    /\ badReads >= 1
    /\ badReads < maxBadReads

\* every successful read has been counted once, and the reads are within budget
readsBounded ==
    /\ pc = "loop" => (reads = badReads /\ badReads <= maxBadReads)
    /\ pc = "done" => (reads <= maxBadReads + 1 /\ badReads <= reads)
    /\ (pc = "done" /\ ~readErr) => reads = badReads

\* C10: the loop cannot run forever and the budget bounds it: every step of the
\* loop is one buffer read, counted once against the budget whatever the
\* buffer holds, the number of reads never exceeds maxBadReads + 1, and the
\* call has returned when it reaches that number.
C10_TerminatesWithinBudget ==
    /\ []readsBounded
    /\ [][pc = "loop" =>
            /\ reads' = reads + 1
            /\ reads' <= maxBadReads + 1
            /\ (pc' = "loop" \/ ~readErr') => badReads' = badReads + 1
            /\ reads' = maxBadReads + 1 => pc' = "done"]_vars

\* A call ended in "too many bad reads" on its read number maxBadReads + 1,
\* every buffer having been rejected whole.
C10_Witness ==
    /\ pc = "done" /\ err = ErrBadReads
    /\ reads = maxBadReads + 1
    /\ output = <<>>
====
